---- MODULE Spec2Model ----
\* sshauth: the AuthorizedKeysCommand helper that lists the objects below
\* bucket/key/user in S3, fetches every object in a goroutine of its own and
\* copies the fetched records to stdout (src/unnamed/part_000, lines 1-282).
\*
\* Byte strings and Go strings are sequences of one-character strings.
EXTENDS Integers, Sequences, FiniteSets, TLC

\* ---------------------------------------------------------------- bounds
\* Real key objects below the user's folder (the marker object comes on top).
MaxKeys == 3
\* Largest page size the store uses for one listing.
MaxPageLen == 4
\* Keys 1..MaxFail are the ones whose GetObject may fail.
MaxFail == 2
\* Writes to stdout that may fail with an error other than EPIPE in one run.
MaxWriteErrs == 1
\* Longest flag file tried, in characters (a flag name counts as one).
MaxFileLen == 5
\* Largest number of command-line arguments tried with a flag file.
MaxCmdArgs == 2

\* ------------------------------------------------------- program constants
\* make(chan io.Reader, 5)
ChanCap == 5

NL == "\n"
Slash == "/"
EmptyBytes == << >>

\* ------------------------------------------------------------ byte helpers
Min(a, b) == IF a < b THEN a ELSE b

\* bytes.HasSuffix(body, []byte("\n"))
HasSuffixNL(body) == Len(body) >= 1 /\ body[Len(body)] = NL

RECURSIVE Flatten(_)
Flatten(ss) == IF ss = << >> THEN << >> ELSE Head(ss) \o Flatten(Tail(ss))

\* ---------------------------------------------------------------- package path
\* The elements of s between slashes, in order (empty elements included).
RECURSIVE SplitSlash(_, _)
SplitSlash(s, cur) ==
    IF s = << >> THEN << cur >>
    ELSE IF Head(s) = Slash THEN << cur >> \o SplitSlash(Tail(s), << >>)
    ELSE SplitSlash(Tail(s), Append(cur, Head(s)))

RECURSIVE JoinSlash(_)
JoinSlash(elems) ==
    IF elems = << >> THEN << >>
    ELSE IF Len(elems) = 1 THEN elems[1]
    ELSE elems[1] \o << Slash >> \o JoinSlash(Tail(elems))

Dot == << "." >>
DotDot == << ".", "." >>

\* The element stack path.Clean builds: "" and "." are dropped, ".." removes
\* the element before it (or is dropped at the root, kept in a relative path).
RECURSIVE CleanElems(_, _, _)
CleanElems(elems, stack, rooted) ==
    IF elems = << >> THEN stack
    ELSE LET e == Head(elems)
             rest == Tail(elems)
         IN IF e = << >> \/ e = Dot THEN CleanElems(rest, stack, rooted)
            ELSE IF e = DotDot
                 THEN IF stack # << >> /\ stack[Len(stack)] # DotDot
                      THEN CleanElems(rest, SubSeq(stack, 1, Len(stack) - 1), rooted)
                      ELSE IF rooted THEN CleanElems(rest, stack, rooted)
                      ELSE CleanElems(rest, Append(stack, e), rooted)
            ELSE CleanElems(rest, Append(stack, e), rooted)

\* path.Clean
Clean(p) ==
    IF p = << >> THEN Dot
    ELSE LET rooted == Head(p) = Slash
             body == JoinSlash(CleanElems(SplitSlash(p, << >>), << >>, rooted))
             out == IF rooted THEN << Slash >> \o body ELSE body
         IN IF out = << >> THEN Dot ELSE out

\* Mutant: the elements are joined by "/" as they are.
PathJoin_NoClean(a, b) == a \o << Slash >> \o b

\* path.Join(a, b): empty elements are ignored, the rest joined by "/" and cleaned.
PathJoin(a, b) ==
    IF a = << >> /\ b = << >> THEN << >>
    ELSE IF a = << >> THEN Clean(b)
    ELSE IF b = << >> THEN Clean(a)
    ELSE Clean(a \o << Slash >> \o b)

RECURSIVE StripTrailingSlash(_)
StripTrailingSlash(p) ==
    IF p # << >> /\ p[Len(p)] = Slash
    THEN StripTrailingSlash(SubSeq(p, 1, Len(p) - 1))
    ELSE p

\* path.Base
PathBase(p) ==
    IF p = << >> THEN Dot
    ELSE LET q == StripTrailingSlash(p)
         IN IF q = << >> THEN << Slash >>
            ELSE LET elems == SplitSlash(q, << >>) IN elems[Len(elems)]

\* ------------------------------------------------------------------ inputs
\* The -bucket values tried: unset and "b".
Buckets == { << >>, << "b" >> }
\* The -authlog values tried: unset and "/l".
Authlogs == { << >>, << Slash, "l" >> }
\* The -key values tried; both name the folder p.
KeyFlags == { << "p" >>, << "p", Slash >> }
\* flag.Arg(0)
User == << "u" >>
\* The -key values tried for the listing prefix: unset, one and two folders,
\* with trailing slashes, a leading slash and a doubled slash.
Prefixes ==
    { << >>, << Slash >>, << "p" >>, << "p", Slash >>, << "p", Slash, Slash >>,
      << Slash, "p" >>, << "p", Slash, "q" >>, << "p", Slash, "q", Slash >>,
      << "p", Slash, Slash, "q" >> }
\* The user names tried with them; the second begins with the first.
Users == { << "u" >>, << "u", "2" >> }
\* Largest number of positional arguments tried.
MaxArgs == 2

\* ------------------------------------------------------------- object store
\* The i-th real key below the listing prefix.
ObjKey(path, i) == path \o << Slash >> \o << ToString(i) >>

\* The key the bucket holds in the folder of the user whose name is this
\* user's name followed by "2": with path p/u it is p/u2/1.
OtherUserKey(path) == path \o << "2", Slash, "1" >>

\* The index of key k below the prefix, -1 for the key of the other user;
\* 0 for any other key (the marker object).
KeyIndex(path, k) ==
    IF \E i \in 1..(MaxKeys + ChanCap) : ObjKey(path, i) = k
    THEN CHOOSE i \in 1..(MaxKeys + ChanCap) : ObjKey(path, i) = k
    ELSE IF k = OtherUserKey(path) THEN -1
    ELSE 0

\* The body the store holds for the i-th key.
StoreBody(i) ==
    CASE i = 1 -> << "A" >>
      [] i = 2 -> << "B", NL >>
      [] i = 3 -> << "C", NL, "D" >>
      [] i = 4 -> << NL >>
      [] i = 5 -> << "F", "G" >>
      [] i = 0 -> << >>
      [] OTHER -> << "E", NL, NL >>

\* Keys whose body read may break off after GetObject succeeded.
MaxReadErr == 1

\* What svc.GetObject followed by ioutil.ReadAll(resp.Body) can give for the
\* i-th key: how = "ok" (whole body), "geterr" (GetObject returned an error),
\* "readerr" (ReadAll returned the bytes read so far and an error).
GetObjectResults(i, flaky) ==
    { [how |-> "ok", body |-> StoreBody(i)] }
    \cup (IF flaky /\ i <= MaxFail THEN { [how |-> "geterr", body |-> << >>] } ELSE { })
    \cup (IF flaky /\ i > MaxFail /\ i <= MaxFail + MaxReadErr
          THEN { [how |-> "readerr", body |-> SubSeq(StoreBody(i), 1, n)] :
                     n \in 0..(Len(StoreBody(i)) - 1) }
          ELSE { })

\* The key of listed object x: 0 is the marker object, whose key is the listing
\* prefix itself; x >= 1 is the x-th real key below the prefix; -1 is the key
\* of the other user, which begins with the listing prefix as well.
KeyOf(path, x) ==
    IF x = 0 THEN path
    ELSE IF x = -1 THEN OtherUserKey(path)
    ELSE ObjKey(path, x)

\* The objects of a listing: n real keys in key order, with the marker object
\* at position m, or absent when m = 0.
FlatListing(n, m) ==
    LET keys == [x \in 1..n |-> x]
    IN IF m = 0 THEN keys
       ELSE SubSeq(keys, 1, m - 1) \o << 0 >> \o SubSeq(keys, m, n)

\* The listing cut into pages of pl objects; an empty listing is one empty page.
Paginate(flat, pl) ==
    IF flat = << >> THEN << << >> >>
    ELSE [p \in 1..((Len(flat) + pl - 1) \div pl) |->
             SubSeq(flat, (p - 1) * pl + 1, Min(p * pl, Len(flat)))]

\* The listings of up to MaxKeys real keys, in pages of up to MaxPageLen objects.
Listings ==
    UNION { { Paginate(FlatListing(n, m), pl) :
                  m \in 0..(n + 1), pl \in 1..MaxPageLen } : n \in 0..MaxKeys }

\* What ListObjects returns for Prefix = path in a bucket that holds the marker
\* object or not, the key path/1, and the other user's key or not: every key
\* that begins with the string path, in key order ("/" sorts before "2").
PathListings ==
    { Paginate(flat, pl) :
          flat \in { << 1 >>, << 0, 1 >>, << 1, -1 >>, << 0, 1, -1 >> },
          pl \in 1..MaxPageLen }

\* The one-page listings that hold as many real keys as the channel has room
\* for, and the marker object.
BigListings ==
    { Paginate(FlatListing(ChanCap, m), ChanCap + 1) : m \in 1..(ChanCap + 1) }

\* -------------------------------------------------------- readAuthorizedKey
\* fmt.Sprintf(logheader, authlog, path.Base(key), bucket, key)
LogHeader(wrapper, bucketName, key) ==
    << "c", "o", "m", "m", "a", "n", "d", "=", "\"" >>
    \o wrapper \o << " " >> \o PathBase(key) \o << " " >> \o bucketName
    \o << " " >> \o key \o << "\"", " " >>

\* Mutant: the newline is appended without looking at the body's end.
NormalizeNewline_Always(body) == Append(body, NL)

\* if !bytes.HasSuffix(body, "\n") { body = append(body, "\n") }
NormalizeNewline(body) == IF HasSuffixNL(body) THEN body ELSE Append(body, NL)

\* (*bytes.Buffer).Read(p): moves the next min(len(p), buf.Len()) bytes of the
\* buffer into p; unread is what the buffer still holds afterwards.
BufferRead(buf, p) ==
    LET n == Min(Len(p), Len(buf))
    IN [n |-> n,
        unread |-> SubSeq(buf, n + 1, Len(buf)),
        p |-> SubSeq(buf, 1, n) \o SubSeq(p, n + 1, Len(p))]

\* The reader readAuthorizedKey puts on the channel when the log wrapper is
\* configured: outbuf after outbuf.Read(body).
WrapRecord(wrapper, bucketName, key, body) ==
    BufferRead(LogHeader(wrapper, bucketName, key), body).unread

\* Mutant: a failed GetObject puts the error's text on the channel.
KeyRecord_ErrorText(wrapper, bucketName, key, resp) ==
    IF resp.how = "geterr" THEN << "!", NL >>
    ELSE LET body == NormalizeNewline(resp.body)
         IN IF wrapper # << >> THEN WrapRecord(wrapper, bucketName, key, body)
            ELSE body

\* The bytes of the reader readAuthorizedKey sends for the result resp of
\* GetObject and ReadAll.
KeyRecord(wrapper, bucketName, key, resp) ==
    IF resp.how = "geterr" THEN EmptyBytes
    ELSE LET body == NormalizeNewline(resp.body)
         IN IF wrapper # << >> THEN WrapRecord(wrapper, bucketName, key, body)
            ELSE body

\* ------------------------------------------------------------- stdout writes
\* syscall.EPIPE, the value the page callback compares the write error with.
SyscallEPIPE == [type |-> "Errno", errno |-> "EPIPE"]
NilError == [type |-> "nil", errno |-> "none"]

\* The error (*os.File).Write returns for a failed write(2): os.Stdout is an
\* *os.File, which wraps the errno in a *PathError{Op: "write"}; io.Copy hands
\* that error on unchanged.
FileWriteError(errno) == [type |-> "PathError", errno |-> errno]

\* err == syscall.EPIPE
IsEPIPE(err) == err = SyscallEPIPE

\* ---------------------------------------------------------------- main
\* Mutant: the number of positional arguments is not checked.
MainOutcome_NoArgCheck(syslogFails, sshlogger, bucketName, narg) ==
    IF syslogFails THEN "SyslogFatal"
    ELSE IF sshlogger THEN "Logger"
    ELSE IF bucketName = << >> THEN "Usage"
    ELSE "print"

\* Where main goes after flag.Parse: mustEnableSyslog's Fatalf, the -sshlogger
\* print, the two usage errors, or on to printAuthorizedKeys.
MainOutcome(syslogFails, sshlogger, bucketName, narg) ==
    IF syslogFails THEN "SyslogFatal"
    ELSE IF sshlogger THEN "Logger"
    ELSE IF bucketName = << >> THEN "Usage"
    ELSE IF narg # 1 THEN "Usage"
    ELSE "print"

\* The status os.Exit is called with at each end of main (0: main returned or
\* os.Exit(0); 1: usageError, info.Fatalf).
ExitCodeOf(where) ==
    CASE where = "SyslogFatal" -> 1
      [] where = "Logger" -> 0
      [] where = "Usage" -> 1
      [] where = "Fatal" -> 1
      [] where = "Done" -> 0
      [] OTHER -> -1

\* ------------------------------------------------------------ readFlagFile
\* os.Args[0]
ProgName == << "sshauth" >>
\* The characters of the flag files tried; the flag name bucket stands as one.
FileChars == { "-", "bucket", "x", " ", NL }
\* The flag file: absent (os.Open fails), or its content.
NoFile == [exists |-> FALSE, data |-> << >>]
FlagFiles ==
    { NoFile }
    \cup { [exists |-> TRUE, data |-> d] :
               d \in UNION { [1..n -> FileChars] : n \in 0..MaxFileLen } }
\* The command lines tried: the program name and up to MaxCmdArgs arguments.
CmdTokens == { << "-", "bucket" >>, << "x" >>, << "y" >> }
CmdLines ==
    { << ProgName >> \o a : a \in UNION { [1..n -> CmdTokens] : n \in 0..MaxCmdArgs } }

\* unicode.IsSpace, for the characters of FileChars
IsSpace(c) == c \in { " ", NL }

\* bufio.Scanner with bufio.ScanWords over data: leading spaces are skipped,
\* a word runs up to the next space or the end of the data; cur is the word
\* being read, toks the words returned so far.
RECURSIVE ScanWords(_, _, _)
ScanWords(data, cur, toks) ==
    IF data = << >> THEN (IF cur = << >> THEN toks ELSE Append(toks, cur))
    ELSE IF IsSpace(Head(data))
         THEN ScanWords(Tail(data), << >>,
                        IF cur = << >> THEN toks ELSE Append(toks, cur))
         ELSE ScanWords(Tail(data), Append(cur, Head(data)), toks)

\* Mutant: the arguments of the command line are put before those of the file.
ReadFlagFileArgs_CmdFirst(file, args) ==
    IF ~file.exists THEN args
    ELSE << args[1] >> \o SubSeq(args, 2, Len(args))
         \o ScanWords(file.data, << >>, << >>)

\* os.Args after readFlagFile, from the flag file and os.Args before it.
ReadFlagFileArgs(file, args) ==
    IF ~file.exists THEN args
    ELSE << args[1] >> \o ScanWords(file.data, << >>, << >>)
         \o SubSeq(args, 2, Len(args))

\* flag.Parse over the arguments args with the one string flag -bucket, whose
\* value so far is b: parsing stops at the first argument that is not a flag
\* and after "--"; err is a bad flag syntax, an undefined flag or a missing
\* value; rest is flag.Args().
RECURSIVE ParseArgs(_, _)
ParseArgs(args, b) ==
    IF args = << >> THEN [err |-> FALSE, bucket |-> b, rest |-> << >>]
    ELSE LET s == Head(args)
         IN IF Len(s) < 2 \/ s[1] # "-"
            THEN [err |-> FALSE, bucket |-> b, rest |-> args]
            ELSE LET minuses == IF s[2] = "-" THEN 2 ELSE 1
                     name == SubSeq(s, minuses + 1, Len(s))
                 IN IF minuses = 2 /\ Len(s) = 2
                    THEN [err |-> FALSE, bucket |-> b, rest |-> Tail(args)]
                    ELSE IF name[1] = "-" \/ name # << "bucket" >> \/ Len(args) < 2
                         THEN [err |-> TRUE, bucket |-> b, rest |-> Tail(args)]
                         ELSE ParseArgs(SubSeq(args, 3, Len(args)), args[2])

\* flag.Parse(): flag.CommandLine.Parse(os.Args[1:])
ParseFlags(osargs) == ParseArgs(Tail(osargs), << >>)

\* ------------------------------------------------------------------- state
VARIABLES
    pc,                  \* where main is: "main", "print", "page", "callback" or an end
    exitCode,            \* the exit status, -1 while running or when killed by a signal
    bucket,              \* *bucket
    nargs,               \* flag.NArg()
    printSSHLogger,      \* *printSSHLogger
    authlog,             \* *authlog
    keyFlag,             \* *key
    user,                \* flag.Arg(0)
    flagFile,            \* /etc/sshauth/sshauth.conf: absent, or its content
    cmdline,             \* os.Args as the program was started
    osArgs,              \* os.Args; the runs that start after flag.Parse keep
                         \* only what it gave: bucket, nargs and the flags
    authorizedKeysPath,  \* the listing prefix, path.Join(*key, user)
    listing,             \* the pages the store returns for the listing
    faults,              \* GetObject and the read of a body may fail
    pageNo,              \* the page the callback was last called with
    i,                   \* objects of the page the first loop has handled
    j,                   \* records of the page the second loop has copied
    running,             \* the readAuthorizedKey goroutines that have not sent yet
    authorizedKeys,      \* the buffered channel
    drained,             \* every record received from the channel, with the page whose
                         \* drain received it (at) and its write result (werr)
    pipe,                \* stdout's reader: "open" or "broken"
    writeErrs,           \* writes failed so far with an error other than EPIPE
    sig,                 \* listenOnSigpipe: "off", "spawned", "waiting", "pending", "returned"
    storeUsed,           \* a request was sent to the object store
    listErr              \* ListObjectsPages returned an error

vars == << pc, exitCode, bucket, nargs, printSSHLogger, authlog, keyFlag, user,
           flagFile, cmdline, osArgs,
           authorizedKeysPath,
           listing, faults, pageNo, i, j, running, authorizedKeys, drained, pipe, writeErrs,
           sig, storeUsed, listErr >>

flagVars == << bucket, nargs, printSSHLogger, authlog, keyFlag, user,
              flagFile, cmdline, osArgs >>

Ended == { "Done", "Fatal", "Usage", "Logger", "SyslogFatal", "Killed" }
Alive == pc \notin Ended

\* resp.Contents of the page the callback is called with, as keys.
Page ==
    [x \in 1..Len(listing[pageNo]) |-> KeyOf(authorizedKeysPath, listing[pageNo][x])]
LastPage == pageNo = Len(listing)

\* signal.Notify(c, syscall.SIGPIPE) has run.
SigRegistered == sig \in { "waiting", "pending", "returned" }

Init ==
    /\ pc = "main"
    /\ exitCode = -1
    /\ bucket \in Buckets
    /\ nargs \in 0..MaxArgs
    /\ printSSHLogger \in BOOLEAN
    /\ authlog \in Authlogs
    /\ keyFlag \in KeyFlags
    /\ user = User
    /\ flagFile = NoFile
    /\ cmdline = << ProgName >>
    /\ osArgs = << ProgName >>
    /\ authorizedKeysPath = << >>
    /\ listing \in Listings
    /\ faults = TRUE
    /\ pageNo = 0
    /\ i = 0
    /\ j = 0
    /\ running = { }
    /\ authorizedKeys = << >>
    /\ drained = << >>
    /\ pipe = "open"
    /\ writeErrs = 0
    /\ sig = "off"
    /\ storeUsed = FALSE
    /\ listErr = FALSE

\* A run with valid flags over a page that holds more objects than the channel
\* has room for, with and without the log wrapper; the store is sound, a write
\* to stdout may fail and stdout's reader may leave.
InitBig ==
    /\ pc = "main"
    /\ exitCode = -1
    /\ bucket = << "b" >>
    /\ nargs = 1
    /\ printSSHLogger = FALSE
    /\ authlog \in Authlogs
    /\ keyFlag = << "p" >>
    /\ user = User
    /\ flagFile = NoFile
    /\ cmdline = << ProgName >>
    /\ osArgs = << ProgName >>
    /\ authorizedKeysPath = << >>
    /\ listing \in BigListings
    /\ faults = FALSE
    /\ pageNo = 0
    /\ i = 0
    /\ j = 0
    /\ running = { }
    /\ authorizedKeys = << >>
    /\ drained = << >>
    /\ pipe = "open"
    /\ writeErrs = 0
    /\ sig = "off"
    /\ storeUsed = FALSE
    /\ listErr = FALSE

\* main, from flag.Parse to the call of printAuthorizedKeys.
Main ==
    /\ pc = "main"
    /\ \E enableLogging, enableDebugLog, syslogEnabled, syslogOK \in BOOLEAN :
         LET syslogFails == enableLogging /\ syslogEnabled /\ ~syslogOK
             next == MainOutcome(syslogFails, printSSHLogger, bucket, nargs)
         IN /\ pc' = next
            /\ exitCode' = ExitCodeOf(next)
            /\ sig' = IF next = "print" THEN "spawned" ELSE sig
    /\ UNCHANGED << flagVars, authorizedKeysPath, listing, faults, pageNo, i, j,
                    running, authorizedKeys, drained, pipe, writeErrs, storeUsed,
                    listErr >>

\* printAuthorizedKeys up to the call of svc.ListObjectsPages.
PrintAuthorizedKeys ==
    /\ pc = "print"
    /\ authorizedKeysPath' = PathJoin(keyFlag, user)
    /\ pc' = "page"
    /\ UNCHANGED << exitCode, flagVars, listing, faults, pageNo, i, j, running,
                    authorizedKeys, drained, pipe, writeErrs, sig, storeUsed, listErr >>

\* Mutant: the error ListObjectsPages returned is dropped.
ListingEnd_NoFatal(err) == "Done"

\* How printAuthorizedKeys ends once ListObjectsPages has returned err:
\* info.Fatalf when err != nil, else it returns and main returns.
ListingEnd(err) == IF err THEN "Fatal" ELSE "Done"

\* ListObjectsPages requests the next page: the request fails and the error
\* is returned to printAuthorizedKeys, or the callback is called with the page.
NextPage ==
    /\ pc = "page"
    /\ storeUsed' = TRUE
    /\ \E reqErr \in BOOLEAN :
         /\ listErr' = reqErr
         /\ IF reqErr
            THEN /\ pc' = ListingEnd(TRUE)
                 /\ exitCode' = ExitCodeOf(ListingEnd(TRUE))
                 /\ UNCHANGED << pageNo, i, j >>
            ELSE /\ pc' = "callback"
                 /\ pageNo' = pageNo + 1
                 /\ i' = 0
                 /\ j' = 0
                 /\ UNCHANGED exitCode
    /\ UNCHANGED << flagVars, authorizedKeysPath, listing, faults, running,
                    authorizedKeys, drained, pipe, writeErrs, sig >>

\* Mutant: the marker object is not recognised.
IsRootKey_Never(k, path) == FALSE

\* *content.Key == authorizedKeysPath
IsRootKey(k, path) == k = path

\* Mutant: the continue after the marker's send is missing.
LaunchesFetch_NoContinue(marker) == TRUE

\* Whether the round of the first loop reaches go readAuthorizedKey(...): the
\* marker's branch ends in continue.
LaunchesFetch(marker) == ~marker

\* One round of the callback's first loop: the marker object's empty reader is
\* sent on the channel by the callback itself, any other key gets a goroutine.
Launch ==
    /\ pc = "callback"
    /\ i < Len(Page)
    /\ LET k == Page[i + 1]
           marker == IsRootKey(k, authorizedKeysPath)
       IN /\ IF marker
             THEN /\ Len(authorizedKeys) < ChanCap
                  /\ authorizedKeys' = Append(authorizedKeys,
                         [key |-> k, data |-> EmptyBytes, how |-> "marker",
                          page |-> pageNo])
             ELSE UNCHANGED authorizedKeys
          /\ running' = IF LaunchesFetch(marker)
                        THEN running \cup { [key |-> k, page |-> pageNo] }
                        ELSE running
    /\ i' = i + 1
    /\ UNCHANGED << pc, exitCode, flagVars, authorizedKeysPath, listing, faults,
                    pageNo, j, drained, pipe, writeErrs, sig, storeUsed, listErr >>

\* Mutant: the return after the send of the error path is missing, so the
\* function goes on with the empty body and sends again.
ReadAuthorizedKeySends_NoReturn(wrapper, bucketName, key, resp) ==
    IF resp.how = "geterr"
    THEN << KeyRecord(wrapper, bucketName, key, resp),
            KeyRecord(wrapper, bucketName, key, [how |-> "ok", body |-> EmptyBytes]) >>
    ELSE << KeyRecord(wrapper, bucketName, key, resp) >>

\* The readers one call of readAuthorizedKey sends on the channel, in order:
\* the error path sends and returns, a failed ReadAll is only logged, the log
\* wrapper path sends and returns, the last statement sends.
ReadAuthorizedKeySends(wrapper, bucketName, key, resp) ==
    IF resp.how = "geterr" THEN << KeyRecord(wrapper, bucketName, key, resp) >>
    ELSE IF wrapper # << >> THEN << KeyRecord(wrapper, bucketName, key, resp) >>
    ELSE << KeyRecord(wrapper, bucketName, key, resp) >>

\* One goroutine readAuthorizedKey(bucket, key, authorizedKeys), from GetObject
\* to its send, which waits for room in the channel.
ReadAuthorizedKey(t) ==
    /\ Alive
    /\ t \in running
    /\ \E resp \in GetObjectResults(KeyIndex(authorizedKeysPath, t.key), faults) :
         LET sends == ReadAuthorizedKeySends(authlog, bucket, t.key, resp)
         IN /\ Len(authorizedKeys) + Len(sends) <= ChanCap
            /\ authorizedKeys' = authorizedKeys \o
                   [x \in 1..Len(sends) |->
                       [key |-> t.key, data |-> sends[x], how |-> resp.how,
                        page |-> t.page]]
    /\ running' = running \ { t }
    /\ storeUsed' = TRUE
    /\ UNCHANGED << pc, exitCode, flagVars, authorizedKeysPath, listing, faults,
                    pageNo, i, j, drained, pipe, writeErrs, sig, listErr >>

\* How the write(2) calls of io.Copy(os.Stdout, r) can end: "none" (r is empty,
\* nothing is written), "ok", "EPIPE" (the reader of stdout is gone, now or
\* already), "EIO" (any other error).
WriteOutcomes(data, p, nerrs) ==
    IF data = << >> THEN { "none" }
    ELSE IF p = "broken" THEN { "EPIPE" }
    ELSE { "ok", "EPIPE" }
         \cup (IF nerrs < MaxWriteErrs THEN { "EIO" } ELSE { })

\* The error io.Copy(os.Stdout, r) returns.
CopyError(w) == IF w \in { "none", "ok" } THEN NilError ELSE FileWriteError(w)

\* Mutant: every write error ends the callback.
OnCopyError_StopOnAny(err) == IF err = NilError THEN "continue" ELSE "stop"

\* The callback's handling of io.Copy's error: "stop" is return false.
OnCopyError(err) ==
    IF err = NilError THEN "continue"
    ELSE IF IsEPIPE(err) THEN "stop"
    ELSE "continue"

\* Mutant: the second loop makes one round less than the page has objects.
DrainRounds_OneShort(page) == IF page = << >> THEN 0 ELSE Len(page) - 1

\* The rounds of the callback's second loop, for range resp.Contents: one
\* receive per object of the page.
DrainRounds(page) == Len(page)

\* One round of the callback's second loop: receive a reader, copy it to stdout.
\* A write to a broken pipe on file descriptor 1 makes the Go runtime raise
\* SIGPIPE (package os/signal): the process dies of it unless signal.Notify has
\* registered the signal, in which case the signal goes to the channel of
\* listenOnSigpipe and the write returns its EPIPE error.
Drain ==
    /\ pc = "callback"
    /\ i = Len(Page)
    /\ j < DrainRounds(Page)
    /\ authorizedKeys # << >>
    /\ LET r == Head(authorizedKeys)
       IN \E w \in WriteOutcomes(r.data, pipe, writeErrs) :
            /\ drained' = Append(drained, [key |-> r.key, data |-> r.data,
                                           how |-> r.how, page |-> r.page, at |-> pageNo,
                                           werr |-> w])
            /\ pipe' = IF w = "EPIPE" THEN "broken" ELSE pipe
            /\ writeErrs' = IF w = "EIO" THEN writeErrs + 1 ELSE writeErrs
            /\ IF w = "EPIPE" /\ ~SigRegistered
               THEN /\ pc' = "Killed"
                    /\ UNCHANGED << exitCode, j, sig >>
               ELSE /\ sig' = IF w = "EPIPE" /\ sig = "waiting" THEN "pending" ELSE sig
                    /\ IF OnCopyError(CopyError(w)) = "stop"
                       THEN /\ pc' = ListingEnd(FALSE)
                            /\ exitCode' = ExitCodeOf(ListingEnd(FALSE))
                            /\ j' = j
                       ELSE /\ j' = j + 1
                            /\ UNCHANGED << pc, exitCode >>
    /\ authorizedKeys' = Tail(authorizedKeys)
    /\ UNCHANGED << flagVars, authorizedKeysPath, listing, faults, pageNo, i, running,
                    storeUsed, listErr >>

\* return !lastPage: ListObjectsPages requests the next page, or returns nil
\* and main returns.
CallbackReturn ==
    /\ pc = "callback"
    /\ i = Len(Page)
    /\ j = DrainRounds(Page)
    /\ pc' = IF LastPage THEN ListingEnd(FALSE) ELSE "page"
    /\ exitCode' = IF LastPage THEN ExitCodeOf(ListingEnd(FALSE)) ELSE exitCode
    /\ UNCHANGED << flagVars, authorizedKeysPath, listing, faults, pageNo, i, j,
                    running, authorizedKeys, drained, pipe, writeErrs, sig, storeUsed,
                    listErr >>

\* listenOnSigpipe: signal.Notify(c, syscall.SIGPIPE)
ListenOnSigpipeNotify ==
    /\ Alive
    /\ sig = "spawned"
    /\ sig' = "waiting"
    /\ UNCHANGED << pc, exitCode, flagVars, authorizedKeysPath, listing, faults,
                    pageNo, i, j, running, authorizedKeys, drained, pipe, writeErrs,
                    storeUsed, listErr >>

\* listenOnSigpipe: <-c, the debug line, return; c stays registered.
ListenOnSigpipeReceive ==
    /\ Alive
    /\ sig = "pending"
    /\ sig' = "returned"
    /\ UNCHANGED << pc, exitCode, flagVars, authorizedKeysPath, listing, faults,
                    pageNo, i, j, running, authorizedKeys, drained, pipe, writeErrs,
                    storeUsed, listErr >>

Next ==
    \/ Main
    \/ PrintAuthorizedKeys
    \/ NextPage
    \/ Launch
    \/ \E t \in running : ReadAuthorizedKey(t)
    \/ Drain
    \/ CallbackReturn
    \/ ListenOnSigpipeNotify
    \/ ListenOnSigpipeReceive

Spec == Init /\ [][Next]_vars

SpecBig == InitBig /\ [][Next]_vars

\* A run with valid flags for each -key value and user name of Prefixes and
\* Users, over a bucket that may hold the key of the other user.
InitPath ==
    /\ pc = "main"
    /\ exitCode = -1
    /\ bucket = << "b" >>
    /\ nargs = 1
    /\ printSSHLogger = FALSE
    /\ authlog = << >>
    /\ keyFlag \in Prefixes
    /\ user \in Users
    /\ flagFile = NoFile
    /\ cmdline = << ProgName >>
    /\ osArgs = << ProgName >>
    /\ authorizedKeysPath = << >>
    /\ listing \in PathListings
    /\ faults = FALSE
    /\ pageNo = 0
    /\ i = 0
    /\ j = 0
    /\ running = { }
    /\ authorizedKeys = << >>
    /\ drained = << >>
    /\ pipe = "open"
    /\ writeErrs = 0
    /\ sig = "off"
    /\ storeUsed = FALSE
    /\ listErr = FALSE

SpecPath == InitPath /\ [][Next]_vars

\* The start of main, for each flag file and command line of FlagFiles and
\* CmdLines: readDefaultFlagFile, then flag.Parse.
InitFlags ==
    /\ pc = "start"
    /\ exitCode = -1
    /\ bucket = << >>
    /\ nargs = 0
    /\ printSSHLogger = FALSE
    /\ authlog = << >>
    /\ keyFlag = << >>
    /\ user = << >>
    /\ flagFile \in FlagFiles
    /\ cmdline \in CmdLines
    /\ osArgs = cmdline
    /\ authorizedKeysPath = << >>
    /\ listing = << << >> >>
    /\ faults = FALSE
    /\ pageNo = 0
    /\ i = 0
    /\ j = 0
    /\ running = { }
    /\ authorizedKeys = << >>
    /\ drained = << >>
    /\ pipe = "open"
    /\ writeErrs = 0
    /\ sig = "off"
    /\ storeUsed = FALSE
    /\ listErr = FALSE

\* readDefaultFlagFile(): readFlagFile(flagFileName)
ReadDefaultFlagFile ==
    /\ pc = "start"
    /\ osArgs' = ReadFlagFileArgs(flagFile, osArgs)
    /\ pc' = "parse"
    /\ UNCHANGED << exitCode, bucket, nargs, printSSHLogger, authlog, keyFlag, user,
                    flagFile, cmdline, authorizedKeysPath, listing, faults, pageNo,
                    i, j, running, authorizedKeys, drained, pipe, writeErrs, sig,
                    storeUsed, listErr >>

\* flag.Parse(): on an error the flag package prints the usage and exits
\* with status 2.
FlagParse ==
    /\ pc = "parse"
    /\ LET r == ParseFlags(osArgs)
       IN IF r.err
          THEN /\ pc' = "Usage"
               /\ exitCode' = 2
               /\ UNCHANGED << bucket, nargs >>
          ELSE /\ pc' = "parsed"
               /\ bucket' = r.bucket
               /\ nargs' = Len(r.rest)
               /\ UNCHANGED exitCode
    /\ UNCHANGED << printSSHLogger, authlog, keyFlag, user, flagFile, cmdline,
                    osArgs, authorizedKeysPath, listing, faults, pageNo, i, j,
                    running, authorizedKeys, drained, pipe, writeErrs, sig,
                    storeUsed, listErr >>

NextFlags ==
    \/ ReadDefaultFlagFile
    \/ FlagParse

SpecFlags == InitFlags /\ [][NextFlags]_vars

\* ---------------------------------------------------------------- claims
\* Helpers of the properties below.
SeqToSet(q) == { q[x] : x \in DOMAIN q }
\* The records sent on the channel so far.
Sent == SeqToSet(authorizedKeys) \cup SeqToSet(drained)
\* The records whose bytes reached stdout, in the order written.
Written(r) == r.werr = "ok"
Out == SelectSeq(drained, Written)
\* The position of key k in page p of the listing (0 when it is not there).
PosInPage(k, p) ==
    LET hits == { x \in 1..Len(listing[p]) :
                      KeyOf(authorizedKeysPath, listing[p][x]) = k }
    IN IF hits = { } THEN 0 ELSE CHOOSE x \in hits : TRUE
\* The objects of all pages of the listing.
RECURSIVE SumLen(_)
SumLen(ps) == IF ps = << >> THEN 0 ELSE Len(Head(ps)) + SumLen(Tail(ps))
TotalObjects == SumLen(listing)
SawEPIPE == \E x \in DOMAIN drained : drained[x].werr = "EPIPE"
SawEIO == \E x \in DOMAIN drained : drained[x].werr = "EIO"

\* C1: the records written to stdout for a page appear in the page's listing
\* order, whatever the order in which the fetches complete.
C1_OutputInListingOrder ==
    \A a, b \in DOMAIN Out :
        (a < b /\ Out[a].page = Out[b].page)
            => PosInPage(Out[a].key, Out[a].page) < PosInPage(Out[b].key, Out[b].page)

\* The body the store holds for the object behind record r.
BodyOf(r) == StoreBody(KeyIndex(authorizedKeysPath, r.key))

\* C2: without a log wrapper, the record sent for a body that was fetched
\* whole is the body itself when it ends in a newline and the body plus one
\* newline otherwise; a record normalized once more stays as it is.
C2_NewlineNormalized ==
    authlog = << >> =>
        \A r \in Sent :
            r.how = "ok" =>
                /\ r.data = (IF BodyOf(r) # << >> /\ BodyOf(r)[Len(BodyOf(r))] = NL
                             THEN BodyOf(r)
                             ELSE BodyOf(r) \o << NL >>)
                /\ NormalizeNewline(r.data) = r.data

\* C2 witness: stdout holds the record of a body without a final newline and
\* the record of a body with one.
C2_Witness ==
    /\ authlog = << >>
    /\ \E a, b \in DOMAIN Out :
         /\ Out[a].how = "ok" /\ BodyOf(Out[a]) = << "A" >>
         /\ Out[b].how = "ok" /\ BodyOf(Out[b]) = << "B", NL >>

\* C3: with a log wrapper, the record sent for a fetched object is the header
\* command="<wrapper> <base name> <bucket> <key>" and a space, followed by the
\* body with its final newline.
C3_WrappedRecord ==
    authlog # << >> =>
        \A r \in Sent :
            r.how = "ok" =>
                r.data = LogHeader(authlog, bucket, r.key)
                         \o (IF BodyOf(r) # << >> /\ BodyOf(r)[Len(BodyOf(r))] = NL
                             THEN BodyOf(r)
                             ELSE BodyOf(r) \o << NL >>)

\* The records received so far that were launched for page p.
DrainedOfPage(p) == { x \in DOMAIN drained : drained[x].page = p }
\* Every object of the listing has had its record received.
AllDrained ==
    /\ Len(drained) = TotalObjects
    /\ \A p \in DOMAIN listing :
         \A x \in DOMAIN listing[p] :
            \E y \in DrainedOfPage(p) :
               drained[y].key = KeyOf(authorizedKeysPath, listing[p][x])

\* C4: a failed GetObject gives an empty record; the other keys of the page
\* are launched all the same, a run that ends without a broken pipe has
\* received the record of every listed object, and it ends with status 0.
C4_FetchFailureTolerated ==
    /\ \A r \in Sent : r.how = "geterr" => r.data = << >>
    /\ (pc = "callback" /\ i = Len(Page)) =>
          \A x \in DOMAIN Page :
             \/ \E t \in running : t.key = Page[x]
             \/ \E r \in Sent : r.key = Page[x] /\ r.page = pageNo
    /\ (pc = "Done" /\ ~SawEPIPE) => (AllDrained /\ exitCode = 0)

\* C4 witness: a run that ended after a failed GetObject, with a later record
\* of the same page and a record of a later page both written.
C4_Witness ==
    /\ pc = "Done"
    /\ \E a, b, c \in DOMAIN drained :
         /\ drained[a].how = "geterr"
         /\ a < b /\ drained[b].page = drained[a].page /\ drained[b].werr = "ok"
         /\ drained[c].page > drained[a].page /\ drained[c].werr = "ok"

\* C5: once a write to stdout has failed with broken pipe (and the process
\* lives on), printAuthorizedKeys has stopped: that record is the last one
\* received, and the run is in Done with status 0.
C5_StopsOnBrokenPipe ==
    (SawEPIPE /\ pc # "Killed") =>
        /\ pc = "Done"
        /\ exitCode = 0
        /\ drained[Len(drained)].werr = "EPIPE"

\* C6: the run of printAuthorizedKeys is in Fatal exactly when
\* ListObjectsPages returned an error, and only then is the status non-zero.
C6_FatalIffListingError ==
    pc \in { "page", "callback", "Done", "Fatal", "Killed" } =>
        /\ (pc = "Fatal") <=> listErr
        /\ (exitCode >= 1) <=> listErr

\* C6 witness: the listing failed after a page was written in which a
\* GetObject had failed.
C6_Witness ==
    /\ pc = "Fatal"
    /\ Out # << >>
    /\ \E x \in DOMAIN drained : drained[x].how = "geterr"

\* C7: no goroutine is started for the marker object, its record is the empty
\* one the callback sends itself, and nothing of it reaches stdout.
C7_MarkerNotFetched ==
    /\ \A t \in running : t.key # authorizedKeysPath
    /\ \A r \in Sent :
         r.key = authorizedKeysPath => (r.how = "marker" /\ r.data = << >>)
    /\ \A x \in DOMAIN Out : Out[x].key # authorizedKeysPath

\* C7 witness: a finished run over the marker object and real keys, with the
\* real keys' records on stdout.
C7_Witness ==
    /\ pc = "Done"
    /\ \E x \in DOMAIN drained : drained[x].how = "marker"
    /\ \E x, y \in DOMAIN Out : x # y

\* C8: a write error other than broken pipe does not end the callback: the
\* page it happened in is drained to its end before the next page is asked
\* for, and a run without broken pipe and listing error ends in Done with
\* status 0 and every record received.
C8_OtherWriteErrorContinues ==
    /\ \A x \in DOMAIN drained :
         (drained[x].werr = "EIO" /\ (pageNo > drained[x].page \/ pc = "Done")) =>
            Cardinality(DrainedOfPage(drained[x].page)) = Len(listing[drained[x].page])
    /\ (pc \in Ended /\ SawEIO /\ ~SawEPIPE /\ ~listErr) =>
          (pc = "Done" /\ exitCode = 0 /\ AllDrained)

\* C8 witness: a finished run in which a write failed with EIO and later
\* records of the same page and of a later page were written.
C8_Witness ==
    /\ pc = "Done"
    /\ \E a, b, c \in DOMAIN drained :
         /\ drained[a].werr = "EIO"
         /\ a < b /\ drained[b].page = drained[a].page /\ drained[b].werr = "ok"
         /\ drained[c].page > drained[a].page /\ drained[c].werr = "ok"

\* C9: with an empty bucket or a number of positional arguments other than
\* one, main ends with a non-zero status and no request to the store is made.
C9_UsageErrorExit ==
    (bucket = << >> \/ nargs # 1) =>
        /\ ~storeUsed
        /\ pc # "main" => (pc \in Ended /\ exitCode >= 1)

\* C9 as amended: the same when -sshlogger is not set; with -sshlogger main
\* ends before any request to the store as well, with status 0 once the
\* script is printed.
C9_UsageErrorExitUnlessSSHLogger ==
    (bucket = << >> \/ nargs # 1) =>
        /\ ~storeUsed
        /\ pc # "main" =>
              /\ pc \in Ended
              /\ ~printSSHLogger => exitCode >= 1
              /\ printSSHLogger => pc \in { "Logger", "SyslogFatal" }
              /\ pc = "Logger" => exitCode = 0

\* C9 witness: main ended in usageError for a wrong number of arguments.
C9_Witness ==
    /\ pc = "Usage"
    /\ bucket # << >>
    /\ nargs # 1
    /\ exitCode = 1

\* C10: printAuthorizedKeys never blocks for good: while it runs, the
\* callback, ListObjectsPages or a fetch whose send has room can take a step.
C10_NeverBlocked ==
    pc \in { "page", "callback" } =>
        ENABLED (NextPage \/ Launch \/ Drain \/ CallbackReturn
                 \/ \E t \in running : ReadAuthorizedKey(t))

\* The drain of page p has received one record per object of the page.
PageDrained(p) == Cardinality(DrainedOfPage(p)) = Len(listing[p])

\* C11: every fetch in flight, and every record waiting on the channel,
\* belongs to the page the callback is processing; while one is in flight the
\* drains of all earlier pages are complete; the fetches in flight are never
\* more than the objects of the current page.
C11_FetchesOfCurrentPage ==
    /\ \A t \in running : t.page = pageNo /\ PosInPage(t.key, pageNo) # 0
    /\ \A x \in DOMAIN authorizedKeys : authorizedKeys[x].page = pageNo
    /\ pageNo = 0 => running = { }
    /\ pageNo >= 1 =>
          /\ Cardinality(running) <= Len(listing[pageNo])
          /\ (running # { } \/ i > 0) => \A p \in 1..(pageNo - 1) : PageDrained(p)

\* C11 witness: fetches of the second page are in flight after the records
\* of the first page were received.
C11_Witness ==
    /\ pageNo = 2
    /\ Cardinality(running) >= 2
    /\ DrainedOfPage(1) # { }

\* The sends and the receives made so far for key k of page p.
ReceivesOf(k, p) ==
    Cardinality({ x \in DOMAIN drained : drained[x].key = k /\ drained[x].page = p })
SendsOf(k, p) ==
    ReceivesOf(k, p)
    + Cardinality({ x \in DOMAIN authorizedKeys :
                        authorizedKeys[x].key = k /\ authorizedKeys[x].page = p })
\* The objects the first loop has handled so far, as pairs of page and position.
Handled ==
    { o \in (1..pageNo) \X (1..(MaxPageLen + ChanCap)) :
          /\ o[2] <= Len(listing[o[1]])
          /\ o[1] = pageNo => o[2] <= i }
KeyAt(o) == KeyOf(authorizedKeysPath, listing[o[1]][o[2]])
\* Every handled object has one send, or its fetch still running and none.
OneSendEach ==
    \A o \in Handled :
        LET t == [key |-> KeyAt(o), page |-> o[1]]
        IN /\ SendsOf(KeyAt(o), o[1]) = (IF t \in running THEN 0 ELSE 1)
           /\ ReceivesOf(KeyAt(o), o[1]) <= SendsOf(KeyAt(o), o[1])
\* Nothing is left over: every handled object's send was received, the channel
\* is empty and no fetch is running.
AllReceived ==
    /\ \A o \in Handled : ReceivesOf(KeyAt(o), o[1]) = 1
    /\ authorizedKeys = << >>
    /\ running = { }

C13_ExactlyOneSend ==
    [][\A t \in running :
          /\ SendsOf(t.key, t.page) = 0
          /\ t \in running' => SendsOf(t.key, t.page)' = 0
          /\ t \notin running' =>
                /\ SendsOf(t.key, t.page)' = 1
                /\ Len(authorizedKeys') = Len(authorizedKeys) + 1]_vars

\* C13 witness: with the log wrapper configured, one call has ended on the
\* error path of GetObject, one after a failed read of the body and one after
\* a whole body, and the record of each was received.
C13_Witness ==
    /\ authlog # << >>
    /\ \E a, b, c \in DOMAIN drained :
         /\ drained[a].how = "geterr"
         /\ drained[b].how = "readerr"
         /\ drained[c].how = "ok"
    /\ \A x \in DOMAIN drained : ReceivesOf(drained[x].key, drained[x].page) = 1

\* The callback has returned for page p.
PageFinished(p) == p < pageNo \/ (p = pageNo /\ pc \in { "page", "Done", "Fatal" })
\* No record of page p met a broken pipe.
NoEPIPEIn(p) == \A x \in DrainedOfPage(p) : drained[x].werr # "EPIPE"

C15_RecordsEndWithNewline ==
    \A r \in Sent : r.data # << >> => r.data[Len(r.data)] = NL

\* C16: when GetObject succeeds and the read of the body breaks off, the
\* record sent is empty, so no partly read key reaches stdout.
C16_ReadErrorSendsEmpty ==
    \A r \in Sent : r.how = "readerr" => r.data = << >>

\* C17: SIGPIPE never ends the process: no write to stdout is made before
\* listenOnSigpipe has registered its channel, and once registered the
\* channel stays registered.
C17_SigpipeAbsorbed ==
    /\ pc # "Killed"
    /\ (\E x \in DOMAIN drained : drained[x].werr # "none") => SigRegistered

\* The -key value is a path of plain names separated by single slashes, with
\* any number of trailing slashes and at least one name.
PlainPrefix(k) ==
    LET q == StripTrailingSlash(k)
    IN /\ q # << >>
       /\ \A x \in 1..(Len(q) - 1) : ~(q[x] = Slash /\ q[x + 1] = Slash)
       /\ \A e \in SeqToSet(SplitSlash(q, << >>)) : e # Dot /\ e # DotDot

\* C18: for every -key value, the empty one included, and every user name the
\* listing prefix is the -key value without its trailing slashes, one "/" and
\* the user name.
C18_ListingPrefix ==
    pc \in { "page", "callback", "Done", "Fatal", "Killed" } =>
        authorizedKeysPath = StripTrailingSlash(keyFlag) \o << Slash >> \o user

\* C18 as amended: the same for a -key value of plain names separated by
\* single slashes; for the empty -key value the listing prefix is the user
\* name alone, without a leading "/".
C18_ListingPrefixOfPlainKey ==
    pc \in { "page", "callback", "Done", "Fatal", "Killed" } =>
        /\ PlainPrefix(keyFlag) =>
              authorizedKeysPath = StripTrailingSlash(keyFlag) \o << Slash >> \o user
        /\ keyFlag = << >> => authorizedKeysPath = user

\* C18 witness: the listing has run with the prefix p/q/u2 made from the -key
\* value p/q/ and the user u2.
C18_Witness ==
    /\ pc = "Done"
    /\ keyFlag = << "p", Slash, "q", Slash >>
    /\ user = << "u", "2" >>
    /\ authorizedKeysPath = << "p", Slash, "q", Slash, "u", "2" >>
    /\ storeUsed

\* Key k lies in the folder path/.
InFolder(k, path) ==
    /\ Len(k) > Len(path) + 1
    /\ SubSeq(k, 1, Len(path) + 1) = path \o << Slash >>

\* C19: every object fetched, and every record written, for a user has a key
\* in the user's own folder prefix/user/; no key of another user whose name
\* begins with this user's name is fetched or written.
C19_OnlyOwnFolder ==
    /\ \A t \in running : InFolder(t.key, authorizedKeysPath)
    /\ \A r \in Sent : r.how # "marker" => InFolder(r.key, authorizedKeysPath)
    /\ \A x \in DOMAIN Out : Out[x].key # OtherUserKey(authorizedKeysPath)

\* The body of the object a record belongs to, with a newline added unless it
\* ends in one.
NormalizedBodyOf(r) ==
    IF BodyOf(r) # << >> /\ BodyOf(r)[Len(BodyOf(r))] = NL
    THEN BodyOf(r)
    ELSE BodyOf(r) \o << NL >>
\* Every listed object has exactly one record, all received.
AllListedReceived ==
    /\ \A o \in Handled : ReceivesOf(KeyAt(o), o[1]) = 1
    /\ Len(drained) = TotalObjects
\* Every received record is on stdout, the empty ones with no byte.
AllReceivedWritten ==
    \A x \in DOMAIN drained :
        drained[x].werr = (IF drained[x].data = << >> THEN "none" ELSE "ok")

NotSpace(c) == ~IsSpace(c)
\* The places of data where a word begins.
WordStarts(data) ==
    { x \in DOMAIN data : NotSpace(data[x]) /\ (x = 1 \/ IsSpace(data[x - 1])) }
\* The arguments of os.Args between the program name and the last n - 1
\* ones, n being the length of the command line.
FileArgs == SubSeq(osArgs, 2, Len(osArgs) - Len(cmdline) + 1)
\* toks is a list of -bucket flags, each with its value.
OnlyBucketFlags(toks) ==
    /\ Len(toks) % 2 = 0
    /\ \A x \in DOMAIN toks :
          x % 2 = 1 => toks[x] \in { << "-", "bucket" >>, << "-", "-", "bucket" >> }

\* C21: after readFlagFile os.Args is the program name, then the words of the
\* flag file in file order, then the arguments of the command line in their
\* order, so that a flag of the command line overrides the same flag of the
\* file; when the file cannot be opened os.Args is as it was.
C21_ArgsAfterFlagFile ==
    pc \in { "parse", "parsed", "Usage" } =>
        IF ~flagFile.exists THEN osArgs = cmdline
        ELSE /\ Len(osArgs) = Len(cmdline) + Cardinality(WordStarts(flagFile.data))
             /\ osArgs[1] = cmdline[1]
             /\ SubSeq(osArgs, Len(osArgs) - Len(cmdline) + 2, Len(osArgs)) = Tail(cmdline)
             /\ \A x \in DOMAIN FileArgs :
                   /\ FileArgs[x] # << >>
                   /\ \A y \in DOMAIN FileArgs[x] : NotSpace(FileArgs[x][y])
             /\ Flatten(FileArgs) = SelectSeq(flagFile.data, NotSpace)
             /\ (pc = "parsed" /\ OnlyBucketFlags(FileArgs)) =>
                   bucket = (IF ParseFlags(cmdline).bucket # << >>
                             THEN ParseFlags(cmdline).bucket
                             ELSE ParseFlags(<< ProgName >> \o FileArgs).bucket)

\* C21 witness: the file holds "-bucket x", the command line -bucket y; both
\* are in os.Args, the file's first, and flag.Parse has set the bucket y.
C21_Witness ==
    /\ pc = "parsed"
    /\ flagFile.exists
    /\ flagFile.data = << "-", "bucket", " ", "x", NL >>
    /\ cmdline = << ProgName, << "-", "bucket" >>, << "y" >> >>
    /\ osArgs = << ProgName, << "-", "bucket" >>, << "x" >>, << "-", "bucket" >>, << "y" >> >>
    /\ bucket = << "y" >>

====
